---- MODULE Spec2Model ----
(***************************************************************************)
(* Model of the caption service (src/caption_service.py): the lazily       *)
(* loaded model handle, the lock that serialises every access to it, the   *)
(* idle reclamation loop, the manual unload route and the generation       *)
(* status record.  A program position is named after the source line the   *)
(* thread is about to execute (c = caption, g = generate_caption_internal, *)
(* e = ensure_model_loaded, u = unload_model, j = unload_model_job).       *)
(***************************************************************************)
EXTENDS Integers, Sequences, FiniteSets, TLC

VARIABLES
    model,           \* global model: NoModel (None) or the identity of the loaded handle
    idle,            \* time.time() - last_activity, in seconds: the one quantity the
                     \* program computes from the clock and last_activity; counted
                     \* up to IdleCap, past which line 111 cannot tell values apart
    unload_timer,    \* global unload_timer: FALSE = None, TRUE = the started thread
    model_lock,      \* holder of model_lock, or NoThread
    status_lock,     \* holder of status_lock, or NoThread
    caption_status,  \* global caption_status record
    pc,              \* position of every thread
    exc,             \* the exception a request thread is propagating ("" = none)
    attempts,        \* load attempts (lines 150-161, lines 167-174) made inside the
                     \* current with model_lock
    timers,          \* number of unload_model_job threads started (line 123)
    handles,         \* number of handles constructed so far (identity of the last one)
    napped,          \* the reclamation loop's time.sleep(10) has lasted its 10 seconds
    trace,           \* history: statuses written during a request that is alone in flight
    solo,            \* history: no other request has been in flight during this request
    since_gen,       \* history: seconds since the inference call of the last successful
                     \* generation on the loaded handle returned, counted like idle
                     \* (IdleCap: longer ago than the loop can tell, or none yet)
    entry,           \* download_model.py: the entry point that runs ("job" is __main__)
    config,          \* download_model.py: the job descriptor given on the command line
    dpc,             \* download_model.py: position of the running entry point
    job,             \* download_model: file_sizes, idx, cumulative_downloaded,
                     \* total_download_size
    out,             \* download_model.py: outcomes printed to stdout, exit code
    progress,        \* content of the progress file
    emitted,         \* history: the last progress_data update_progress built
    mon,             \* locals of the running monitor function
    disk,            \* the progress file and its temporary file, as the threads
                     \* inside update_progress and a reader of the file see them
    last_gen         \* history: the handle the last request left behind when its inference
                     \* raised (NoModel when it left model_lock in another way), and
                     \* whether an unload has freed that handle since

vars == <<model, idle, unload_timer, model_lock, status_lock, caption_status, pc, exc, attempts, timers, handles, napped, trace, solo, since_gen, entry, config, dpc, job, out, progress, emitted, mon, disk, last_gen>>

(* ------------------------------ bounds -------------------------------- *)
(* Seconds the clock advances in one step of the model *)
TickLen == 180
(* Loads that succeed in one run *)
MaxHandles == 2
(* Files a job names *)
MaxFiles == 2
(* Largest size of a file of a job *)
MaxSize == 2
(* Longest text of a progress record, in units a write can leave behind *)
MaxRecordLen == 2
(* Largest size of a file a poll can come across *)
MaxObserved == MaxSize + 1
(* A tick of the monitors' clock is half a second. time.sleep(0.5) *)
PollTicks == 1
(* "time.time() - last_update_time > 2": two seconds, in ticks *)
HeartbeatTicks == 4
(* Past the heartbeat interval the time since the last update is not told apart *)
ElapsedCap == HeartbeatTicks + 1

(* ------------------------- program constants -------------------------- *)
UNLOAD_TIMEOUT == 180
SLEEP_INTERVAL == 10
NoModel == 0
(* Every idle time above UNLOAD_TIMEOUT is counted as this one *)
IdleCap == UNLOAD_TIMEOUT + TickLen

Requests == {"r1", "r2"}
Unloaders == {"u1"}
Timer == "timer"
Readers == {"s1"}
Threads == Requests \cup Unloaders \cup Readers \cup {Timer}
NoThread == "none"

(* What a request body can be: well formed, without the image key, or not
   decodable (bad JSON, bad base64, bad image, bad number) *)
RequestKinds == {"ok", "no_image", "malformed"}

(* caption_status as initialised at module load *)
InitialStatus == [status |-> "idle", message |-> "", progress |-> 0]

(* The statuses the comment on the record lists *)
DocumentedStatuses == {"idle", "loading_model", "generating", "completed", "error"}

(* ---------------------------- update_status --------------------------- *)
(* The call sites of update_status, by line *)
UpdateStatusSites == {"c370", "c375", "g245", "g249", "g272", "g281", "c410", "c421"}

(* Mutant: the except clause of caption reports completion *)
StatusCompletedWritten(t) ==
    [status |-> "completed", message |-> "Error: " \o exc[t], progress |-> 0]

(* The record update_status('error', f'Error: {str(e)}', 0) writes *)
StatusErrorWritten(t) ==
    [status |-> "error", message |-> "Error: " \o exc[t], progress |-> 0]

(* The record each call of update_status writes *)
StatusArgs(t) ==
    CASE pc[t] = "c370" -> [status |-> "starting", message |-> "Starting caption generation...", progress |-> 0]
      [] pc[t] = "c375" -> [status |-> "error", message |-> "No image provided", progress |-> 0]
      [] pc[t] = "g245" -> [status |-> "loading_model", message |-> "Loading vision model...", progress |-> 10]
      [] pc[t] = "g249" -> [status |-> "error", message |-> "Failed to load model", progress |-> 0]
      [] pc[t] = "g272" -> [status |-> "generating", message |-> "Generating caption... (this may take 5-10 minutes on CPU)", progress |-> 50]
      [] pc[t] = "g281" -> [status |-> "generating", message |-> "Processing response...", progress |-> 90]
      [] pc[t] = "c410" -> [status |-> "completed", message |-> "Caption generated successfully!", progress |-> 100]
      [] pc[t] = "c421" -> StatusErrorWritten(t)

(* Where the caller continues after update_status returns; line 250 raises *)
AfterUpdate(site) ==
    CASE site = "c370" -> "c374"
      [] site = "c375" -> "c376"
      [] site = "g245" -> "g246"
      [] site = "g249" -> "raise"
      [] site = "g272" -> "g273"
      [] site = "g281" -> "g285"
      [] site = "c410" -> "c414"
      [] site = "c421" -> "c422"

InFlight(r) == pc[r] # "idle"

(* The history of a request that has been alone in flight so far *)
Logged(s) == [r \in Requests |-> IF solo[r] THEN Append(trace[r], s) ELSE <<>>]

(* The thread holds status_lock *)
HoldsStatusLock(t) == status_lock = t

(* with status_lock: entry *)
StatusLockAcquire(t) ==
    /\ pc[t] \in UpdateStatusSites
    /\ status_lock = NoThread
    /\ status_lock' = t
    /\ UNCHANGED <<model, idle, unload_timer, model_lock, caption_status, pc, exc,
                   attempts, timers, handles, napped, trace, solo, since_gen, entry,
                   config, dpc, job, out, progress, emitted, mon, disk, last_gen>>

(* caption_status = {...}; leaving the with block releases status_lock *)
StatusWrite(t) ==
    /\ pc[t] \in UpdateStatusSites
    /\ HoldsStatusLock(t)
    /\ caption_status' = StatusArgs(t)
    /\ trace' = Logged(StatusArgs(t).status)
    /\ status_lock' = NoThread
    /\ pc' = [pc EXCEPT ![t] = AfterUpdate(pc[t])]
    /\ exc' = [exc EXCEPT ![t] = IF pc[t] = "g249" THEN "Failed to load model" ELSE @]
    /\ UNCHANGED <<model, idle, unload_timer, model_lock, attempts, timers, handles,
                   napped, solo, since_gen, entry, config, dpc, job, out, progress,
                   emitted, mon, disk, last_gen>>

(* ------------------------------ get_status ---------------------------- *)
(* Mutant: get_status reads the record inside with model_lock *)
StatusReadAcquireUnderModelLock(s) ==
    /\ pc[s] = "s363"
    /\ status_lock = NoThread
    /\ model_lock = NoThread
    /\ status_lock' = s
    /\ pc' = [pc EXCEPT ![s] = "s364"]
    /\ UNCHANGED <<model, idle, unload_timer, model_lock, caption_status, exc, attempts,
                   timers, handles, napped, trace, solo, since_gen, entry, config, dpc,
                   job, out, progress, emitted, mon, disk, last_gen>>

(* line 363: with status_lock.  Observers poll the record, so a GET /status
   is waiting or being served at every moment *)
StatusReadAcquire(s) ==
    /\ pc[s] = "s363"
    /\ status_lock = NoThread
    /\ status_lock' = s
    /\ pc' = [pc EXCEPT ![s] = "s364"]
    /\ UNCHANGED <<model, idle, unload_timer, model_lock, caption_status, exc, attempts,
                   timers, handles, napped, trace, solo, since_gen, entry, config, dpc,
                   job, out, progress, emitted, mon, disk, last_gen>>

(* line 364: return jsonify(caption_status); leaving the with block
   releases status_lock *)
StatusRead(s) ==
    /\ pc[s] = "s364"
    /\ HoldsStatusLock(s)
    /\ status_lock' = NoThread
    /\ pc' = [pc EXCEPT ![s] = "s363"]
    /\ UNCHANGED <<model, idle, unload_timer, model_lock, caption_status, exc, attempts,
                   timers, handles, napped, trace, solo, since_gen, entry, config, dpc,
                   job, out, progress, emitted, mon, disk, last_gen>>

(* ------------------------------ caption ------------------------------- *)
(* The server hands a request to a fresh thread; threads are interchangeable,
   so the first idle one of the model takes it *)
FirstIdle(r) == pc[r] = "idle" /\ (r = "r1" \/ pc["r1"] # "idle")

(* A POST /caption arrives and a thread starts serving it *)
BeginCaption(r) ==
    /\ FirstIdle(r)
    /\ pc' = [pc EXCEPT ![r] = "c370"]
    /\ solo' = [q \in Requests |-> IF q = r THEN \A o \in Requests \ {r} : ~InFlight(o)
                                   ELSE FALSE]
    /\ trace' = [q \in Requests |-> <<>>]
    /\ UNCHANGED <<model, idle, unload_timer, model_lock, status_lock, caption_status,
                   exc, attempts, timers, handles, napped, since_gen, entry, config, dpc,
                   job, out, progress, emitted, mon, disk, last_gen>>

(* lines 372-393: read the body, check for the image, decode it and the
   parameters; the body is the client's choice *)
CheckRequest(r) ==
    /\ pc[r] = "c374"
    /\ \E k \in RequestKinds :
          /\ pc' = [pc EXCEPT ![r] = CASE k = "no_image" -> "c375"
                                       [] k = "malformed" -> "c421"
                                       [] OTHER -> "g244"]
          /\ exc' = [exc EXCEPT ![r] = IF k = "malformed" THEN "decode" ELSE @]
    /\ UNCHANGED <<model, idle, unload_timer, model_lock, status_lock, caption_status,
                   attempts, timers, handles, napped, trace, solo, since_gen, entry,
                   config, dpc, job, out, progress, emitted, mon, disk, last_gen>>

(* The status code of the response returned at a return site of caption *)
ResponseCode(site) ==
    CASE site = "c376" -> 400
      [] site = "c414" -> 200
      [] site = "c422" -> 500
      [] OTHER -> 0

ReturnSites == {"c376", "c414", "c422"}

(* lines 376, 414 and 422: return the response *)
Leave(r) ==
    /\ pc[r] \in ReturnSites
    /\ pc' = [pc EXCEPT ![r] = "idle"]
    /\ exc' = [exc EXCEPT ![r] = ""]
    /\ trace' = [trace EXCEPT ![r] = <<>>]
    /\ solo' = [solo EXCEPT ![r] = FALSE]
    /\ UNCHANGED <<model, idle, unload_timer, model_lock, status_lock, caption_status,
                   attempts, timers, handles, napped, since_gen, entry, config, dpc, job,
                   out, progress, emitted, mon, disk, last_gen>>

(* Mutant: the lock is taken without waiting for its holder *)
LockFreeIgnored == TRUE

(* -------------------------- model_lock ------------------------------- *)
LockFree == model_lock = NoThread

(* What leaving the with model_lock block records *)
LeftLock(how, h) ==
    [failed |-> IF how = "inference" THEN h ELSE NoModel, freed |-> FALSE]

(* raise inside generate_caption_internal: the exception starts to propagate *)
Raise(r, e) ==
    /\ exc' = [exc EXCEPT ![r] = e]
    /\ pc' = [pc EXCEPT ![r] = "raise"]

(* Mutant: an exception leaves the with block with the lock held *)
UnwindHoldingLock(r) ==
    /\ pc[r] = "raise"
    /\ pc' = [pc EXCEPT ![r] = "c421"]
    /\ attempts' = [attempts EXCEPT ![r] = 0]
    /\ last_gen' = LeftLock(exc[r], model)
    /\ UNCHANGED <<model, idle, unload_timer, model_lock, status_lock, caption_status,
                   exc, timers, handles, napped, trace, solo, since_gen, entry, config,
                   dpc, job, out, progress, emitted, mon, disk>>

(* The exception leaves generate_caption_internal: the with block releases
   model_lock and the except clause of caption (line 419) catches it *)
Unwind(r) ==
    /\ pc[r] = "raise"
    /\ model_lock' = NoThread
    /\ pc' = [pc EXCEPT ![r] = "c421"]
    /\ attempts' = [attempts EXCEPT ![r] = 0]
    /\ last_gen' = LeftLock(exc[r], model)
    /\ UNCHANGED <<model, idle, unload_timer, status_lock, caption_status, exc, timers,
                   handles, napped, trace, solo, since_gen, entry, config, dpc, job, out,
                   progress, emitted, mon, disk>>

(* ---------------------- generate_caption_internal --------------------- *)
(* Mutant: generate_caption_internal runs its body without taking model_lock *)
AcquireModelLockSkipped(r) ==
    /\ pc[r] = "g244"
    /\ pc' = [pc EXCEPT ![r] = "g245"]
    /\ UNCHANGED <<model, idle, unload_timer, model_lock, status_lock, caption_status,
                   exc, attempts, timers, handles, napped, trace, solo, since_gen, entry,
                   config, dpc, job, out, progress, emitted, mon, disk, last_gen>>

(* line 244: with model_lock *)
AcquireModelLock(r) ==
    /\ pc[r] = "g244"
    /\ LockFree
    /\ model_lock' = r
    /\ pc' = [pc EXCEPT ![r] = "g245"]
    /\ UNCHANGED <<model, idle, unload_timer, status_lock, caption_status, exc, attempts,
                   timers, handles, napped, trace, solo, since_gen, entry, config, dpc,
                   job, out, progress, emitted, mon, disk, last_gen>>

(* -------------------------- ensure_model_loaded ----------------------- *)
(* Mutant: the early return of line 133 is missing *)
AlreadyLoadedNever == FALSE

(* Mutant: the check of line 133 asks whether a load has ever succeeded *)
AlreadyLoadedOnce == handles > 0

(* line 133: if model is not None *)
AlreadyLoaded == model # NoModel

(* lines 131-134: refresh the timestamp, return when a handle is loaded *)
EnsureEntry(r) ==
    /\ pc[r] = "g246"
    /\ idle' = 0
    /\ pc' = [pc EXCEPT ![r] = IF AlreadyLoaded THEN "g248" ELSE "e138"]
    /\ last_gen' = LeftLock("none", NoModel)
    /\ UNCHANGED <<model, unload_timer, model_lock, status_lock, caption_status, exc,
                   attempts, timers, handles, napped, trace, solo, since_gen, entry,
                   config, dpc, job, out, progress, emitted, mon, disk>>

(* lines 138-142: both weight files must exist *)
CheckFiles(r) ==
    /\ pc[r] = "e138"
    /\ \E present \in BOOLEAN :
          IF present
          THEN /\ pc' = [pc EXCEPT ![r] = "e155"]
               /\ UNCHANGED exc
          ELSE Raise(r, "FileNotFoundError")
    /\ UNCHANGED <<model, idle, unload_timer, model_lock, status_lock, caption_status,
                   attempts, timers, handles, napped, trace, solo, since_gen, entry,
                   config, dpc, job, out, progress, emitted, mon, disk, last_gen>>

(* Mutant: start_unload_timer starts a thread without the check of line 121 *)
StartUnloadTimerUnguarded ==
    /\ unload_timer' = TRUE
    /\ timers' = timers + 1
    /\ napped' = FALSE

(* lines 118-124: start_unload_timer; a no-op when the thread exists *)
StartUnloadTimer ==
    IF unload_timer = FALSE
    THEN /\ unload_timer' = TRUE
         /\ timers' = timers + 1
         /\ napped' = FALSE
    ELSE UNCHANGED <<unload_timer, timers, napped>>

TimerPcAfterStart == IF unload_timer = FALSE THEN "sleep" ELSE pc[Timer]

(* model = Llama(...) returned a handle; lines 176-179 *)
LoadSucceeded(r) ==
    /\ handles < MaxHandles
    /\ handles' = handles + 1
    /\ model' = handles + 1
    /\ StartUnloadTimer
    /\ pc' = [pc EXCEPT ![r] = "g248", ![Timer] = TimerPcAfterStart]
    /\ UNCHANGED exc

(* lines 150-161: the chat handler and the first Llama(...) call *)
LoadPrimary(r) ==
    /\ pc[r] = "e155"
    /\ attempts' = [attempts EXCEPT ![r] = @ + 1]
    /\ \E ok \in BOOLEAN :
          IF ok
          THEN LoadSucceeded(r)
          ELSE /\ pc' = [pc EXCEPT ![r] = "e167"]
               /\ UNCHANGED <<model, handles, unload_timer, napped, timers, exc>>
    /\ UNCHANGED <<idle, model_lock, status_lock, caption_status, trace, solo, since_gen,
                   entry, config, dpc, job, out, progress, emitted, mon, disk, last_gen>>

(* Mutant: the fallback is tried once more before the error is re-raised *)
AfterFallbackFailedRetry(r) ==
    /\ attempts' = [attempts EXCEPT ![r] = @ + 1]
    /\ IF attempts[r] < 2
       THEN UNCHANGED <<pc, exc>>
       ELSE Raise(r, "load")
    /\ UNCHANGED <<model, handles, unload_timer, napped, timers>>

(* lines 181-183: the fallback raised too; log and re-raise *)
AfterFallbackFailed(r) ==
    /\ Raise(r, "load")
    /\ attempts' = [attempts EXCEPT ![r] = @ + 1]
    /\ UNCHANGED <<model, handles, unload_timer, napped, timers>>

(* lines 162-174: the except clause calls Llama(...) again, in qwen chat format *)
LoadFallback(r) ==
    /\ pc[r] = "e167"
    /\ \E ok \in BOOLEAN :
          IF ok
          THEN /\ LoadSucceeded(r)
               /\ attempts' = [attempts EXCEPT ![r] = @ + 1]
          ELSE /\ AfterFallbackFailed(r)
    /\ UNCHANGED <<idle, model_lock, status_lock, caption_status, trace, solo, since_gen,
                   entry, config, dpc, job, out, progress, emitted, mon, disk, last_gen>>

(* ---------------- generate_caption_internal, continued ---------------- *)
(* line 248: if model is None *)
CheckModel(r) ==
    /\ pc[r] = "g248"
    /\ pc' = [pc EXCEPT ![r] = IF model = NoModel THEN "g249" ELSE "g256"]
    /\ UNCHANGED <<model, idle, unload_timer, model_lock, status_lock, caption_status,
                   exc, attempts, timers, handles, napped, trace, solo, since_gen, entry,
                   config, dpc, job, out, progress, emitted, mon, disk, last_gen>>

(* lines 252-268: encode the image as JPEG and build the messages *)
EncodeImage(r) ==
    /\ pc[r] = "g256"
    /\ \E ok \in BOOLEAN :
          IF ok
          THEN /\ pc' = [pc EXCEPT ![r] = "g272"]
               /\ UNCHANGED exc
          ELSE Raise(r, "encode")
    /\ UNCHANGED <<model, idle, unload_timer, model_lock, status_lock, caption_status,
                   attempts, timers, handles, napped, trace, solo, since_gen, entry,
                   config, dpc, job, out, progress, emitted, mon, disk, last_gen>>

(* Mutant: a failed inference drops the handle as if it were corrupt *)
HandleDroppedAfterInferenceError == NoModel

(* The handle after model.create_chat_completion raised: lines 318-320 log
   and re-raise, nothing touches model *)
HandleAfterInferenceError == model

(* line 273: model.create_chat_completion returns or raises *)
Inference(r) ==
    /\ pc[r] = "g273"
    /\ \E ok \in BOOLEAN :
          IF ok
          THEN /\ pc' = [pc EXCEPT ![r] = "g281"]
               /\ since_gen' = 0
               /\ UNCHANGED <<model, exc>>
          ELSE /\ model' = HandleAfterInferenceError
               /\ Raise(r, "inference")
               /\ UNCHANGED since_gen
    /\ UNCHANGED <<idle, unload_timer, model_lock, status_lock, caption_status, attempts,
                   timers, handles, napped, trace, solo, entry, config, dpc, job, out,
                   progress, emitted, mon, disk, last_gen>>

(* Mutant: line 285 is missing, the timestamp stays that of line 131 *)
IdleAfterGenerationStale == idle

(* line 285: last_activity = time.time() *)
IdleAfterGeneration == 0

(* lines 285-316: refresh the timestamp, clean the caption, apply the
   replacements, prefix and suffix; return releases model_lock *)
PostProcess(r) ==
    /\ pc[r] = "g285"
    /\ idle' = IdleAfterGeneration
    /\ \E ok \in BOOLEAN :
          IF ok
          THEN /\ model_lock' = NoThread
               /\ pc' = [pc EXCEPT ![r] = "c410"]
               /\ attempts' = [attempts EXCEPT ![r] = 0]
               /\ last_gen' = LeftLock("returned", model)
               /\ UNCHANGED exc
          ELSE /\ Raise(r, "postprocess")
               /\ UNCHANGED <<model_lock, attempts, last_gen>>
    /\ UNCHANGED <<model, unload_timer, status_lock, caption_status, timers, handles,
                   napped, trace, solo, since_gen, entry, config, dpc, job, out,
                   progress, emitted, mon, disk>>

(* ------------------------------ unload_model -------------------------- *)
(* A POST /unload arrives *)
BeginUnload(u) ==
    /\ pc[u] = "idle"
    /\ pc' = [pc EXCEPT ![u] = "u431"]
    /\ UNCHANGED <<model, idle, unload_timer, model_lock, status_lock, caption_status,
                   exc, attempts, timers, handles, napped, trace, solo, since_gen, entry,
                   config, dpc, job, out, progress, emitted, mon, disk, last_gen>>

(* Mutant: unload_model enters its body without taking model_lock *)
UnloadAcquireUnlocked(u) ==
    /\ pc[u] = "u431"
    /\ pc' = [pc EXCEPT ![u] = "u432"]
    /\ UNCHANGED <<model, idle, unload_timer, model_lock, status_lock, caption_status,
                   exc, attempts, timers, handles, napped, trace, solo, since_gen, entry,
                   config, dpc, job, out, progress, emitted, mon, disk, last_gen>>

(* line 431: with model_lock *)
UnloadAcquire(u) ==
    /\ pc[u] = "u431"
    /\ LockFree
    /\ model_lock' = u
    /\ pc' = [pc EXCEPT ![u] = "u432"]
    /\ UNCHANGED <<model, idle, unload_timer, status_lock, caption_status, exc, attempts,
                   timers, handles, napped, trace, solo, since_gen, entry, config, dpc,
                   job, out, progress, emitted, mon, disk, last_gen>>

(* Freeing the handle: del model; model = None; gc.collect() *)
Free ==
    /\ model' = NoModel
    /\ since_gen' = IdleCap
    /\ last_gen' = [last_gen EXCEPT !.freed = (last_gen.failed # NoModel)]

(* The return site of unload_model for a handle that was, or was not, loaded *)
UnloadResponseSite(loaded) == IF loaded THEN "u437" ELSE "u439"

(* lines 432-439: free the handle when there is one, and build the response *)
UnloadBody(u) ==
    /\ pc[u] = "u432"
    /\ IF model # NoModel
       THEN Free
       ELSE UNCHANGED <<model, since_gen, last_gen>>
    /\ pc' = [pc EXCEPT ![u] = UnloadResponseSite(model # NoModel)]
    /\ UNCHANGED <<idle, unload_timer, model_lock, status_lock, caption_status, exc,
                   attempts, timers, handles, napped, trace, solo, entry, config, dpc,
                   job, out, progress, emitted, mon, disk>>

(* Mutant: unloading when nothing is loaded is reported as a failure *)
UnloadResponseStrict(site) ==
    IF site = "u437"
    THEN [success |-> TRUE, message |-> "Model unloaded"]
    ELSE [success |-> FALSE, message |-> "Model was already unloaded"]

(* The JSON body returned at a return site of unload_model *)
UnloadResponse(site) ==
    IF site = "u437"
    THEN [success |-> TRUE, message |-> "Model unloaded"]
    ELSE [success |-> TRUE, message |-> "Model was already unloaded"]

UnloadReturnSites == {"u437", "u439"}

(* return: the with block releases model_lock *)
UnloadReturn(u) ==
    /\ pc[u] \in UnloadReturnSites
    /\ model_lock' = NoThread
    /\ pc' = [pc EXCEPT ![u] = "idle"]
    /\ UNCHANGED <<model, idle, unload_timer, status_lock, caption_status, exc, attempts,
                   timers, handles, napped, trace, solo, since_gen, entry, config, dpc,
                   job, out, progress, emitted, mon, disk, last_gen>>

(* ---------------------------- unload_model_job ------------------------ *)
(* lines 107-108: time.sleep(10) has returned; with model_lock *)
TimerAcquire ==
    /\ pc[Timer] = "sleep"
    /\ napped
    /\ LockFree
    /\ model_lock' = Timer
    /\ pc' = [pc EXCEPT ![Timer] = "j109"]
    /\ UNCHANGED <<model, idle, unload_timer, status_lock, caption_status, exc, attempts,
                   timers, handles, napped, trace, solo, since_gen, entry, config, dpc,
                   job, out, progress, emitted, mon, disk, last_gen>>

(* Mutant: the comparison of line 111 is >= *)
IdleExpiredAtThreshold(elapsed) == elapsed >= UNLOAD_TIMEOUT

(* line 111: if elapsed > UNLOAD_TIMEOUT *)
IdleExpired(elapsed) == elapsed > UNLOAD_TIMEOUT

(* Mutant: the loop body runs once and the thread ends *)
TimerExit ==
    /\ model_lock' = NoThread
    /\ napped' = FALSE
    /\ pc' = [pc EXCEPT ![Timer] = "ended"]

(* The with block releases model_lock and while True goes back to the sleep *)
TimerSleep ==
    /\ model_lock' = NoThread
    /\ napped' = FALSE
    /\ pc' = [pc EXCEPT ![Timer] = "sleep"]

(* lines 109-115: free the handle when it has been idle for too long *)
TimerCheck ==
    /\ pc[Timer] = "j109"
    /\ IF model # NoModel /\ IdleExpired(idle)
       THEN /\ Free
            /\ pc' = [pc EXCEPT ![Timer] = "j116"]
            /\ UNCHANGED <<model_lock, napped>>
       ELSE /\ TimerSleep
            /\ UNCHANGED <<model, since_gen, last_gen>>
    /\ UNCHANGED <<idle, unload_timer, status_lock, caption_status, exc, attempts,
                   timers, handles, trace, solo, entry, config, dpc, job, out, progress,
                   emitted, mon, disk>>

(* line 116, after the handle was freed: log, leave the with block, loop *)
TimerFreed ==
    /\ pc[Timer] = "j116"
    /\ TimerSleep
    /\ UNCHANGED <<model, idle, unload_timer, status_lock, caption_status, exc, attempts,
                   timers, handles, trace, solo, since_gen, entry, config, dpc, job, out,
                   progress, emitted, mon, disk, last_gen>>

(* -------------------------------- time -------------------------------- *)
Min(a, b) == IF a < b THEN a ELSE b

(* The clock advances by TickLen seconds *)
Tick ==
    /\ idle' = Min(idle + TickLen, IdleCap)
    /\ since_gen' = Min(since_gen + TickLen, IdleCap)
    /\ napped' = (napped \/ TickLen >= SLEEP_INTERVAL)
    /\ UNCHANGED <<model, unload_timer, model_lock, status_lock, caption_status, pc, exc,
                   attempts, timers, handles, trace, solo, entry, config, dpc, job, out,
                   progress, emitted, mon, disk, last_gen>>

(* ====================== src/download_model.py ========================= *)
(* A position is named after the source line about to execute (main =
   the __main__ block, d = download_model, m = a monitor function). *)

(* No record: the progress file does not exist, nothing has been built *)
NoRecord ==
    [downloaded |-> -1, total |-> -1, progress |-> -1, current_file |-> <<>>,
     speed |-> <<0, 1>>, eta |-> <<0, 1>>]

(* What the command line can be: a job descriptor, nothing, or not JSON *)
ArgvKinds == {"json", "missing", "not_json"}

(* The job descriptors: repo_id present or not, the number of files named
   (0: the whole repository), progress_file given or not *)
Configs ==
    [argv : ArgvKinds, repo_id : BOOLEAN, nfiles : 0..MaxFiles, progress_file : BOOLEAN]

JobStart ==
    [file_sizes |-> <<>>, idx |-> 0, cumulative_downloaded |-> 0, total_download_size |-> 0,
     downloaded_files |-> <<>>]

NoOutput == [printed |-> <<>>, code |-> -1, files |-> <<>>, count |-> 0]

MonitorAtRest ==
    [file_size |-> 0, bytes_before |-> 0, total_size |-> 0, last_size |-> 0,
     current_size |-> 0, found_path |-> "none", elapsed |-> 0]

(* speed and eta are floats: a quotient is kept as <<numerator, denominator>> *)
Zero == <<0, 1>>

Quotient(n, d) == <<n, d>>

(* --------------------------- update_progress -------------------------- *)
(* Mutant: the percentage is not clamped *)
ProgressPercentUnclamped(downloaded, total) ==
    IF total > 0 THEN (downloaded * 100) \div total ELSE 0

(* line 34: min(99, int((downloaded / total * 100) if total > 0 else 0)).
   For the sizes of this model the float expression truncates to the
   integer quotient *)
ProgressPercent(downloaded, total) ==
    IF total > 0 THEN Min(99, (downloaded * 100) \div total) ELSE 0

(* lines 35-42: progress_data *)
ProgressData(downloaded, total, current_file, speed, eta) ==
    [downloaded |-> downloaded,
     total |-> IF total > 0 THEN total ELSE downloaded,
     progress |-> ProgressPercent(downloaded, total),
     current_file |-> current_file,
     speed |-> speed,
     eta |-> eta]

(* lines 28-59: nothing without a progress file; else build the record,
   write it to the temporary file and rename that over the progress file;
   an exception of the write is logged and the file stays as it was *)
UpdateProgress(downloaded, total, current_file, speed, eta) ==
    IF ~config.progress_file
    THEN UNCHANGED <<progress, emitted>>
    ELSE /\ emitted' = ProgressData(downloaded, total, current_file, speed, eta)
         /\ \E written \in BOOLEAN :
               progress' = IF written THEN emitted' ELSE progress

(* ------------------------ __main__, download_model -------------------- *)
(* print(json.dumps({'success': ...})) and the end of the process *)
PrintAndExit(outcome, code) ==
    /\ out' = [out EXCEPT !.printed = Append(@, outcome), !.code = code]
    /\ dpc' = "exit"

(* lines 493-501: the argument is missing or json.loads raises *)
MainParse ==
    /\ entry = "job" /\ dpc = "main493"
    /\ IF config.argv = "json"
       THEN /\ dpc' = "d357"
            /\ UNCHANGED out
       ELSE PrintAndExit("failure", 1)
    /\ UNCHANGED <<model, idle, unload_timer, model_lock, status_lock, caption_status,
                   pc, exc, attempts, timers, handles, napped, trace, solo, since_gen,
                   entry, config, job, progress, emitted, mon, disk, last_gen>>

(* lines 351-358: without repo_id download_model returns a failure dict,
   which line 502 drops: nothing is printed and the process ends normally *)
JobCheckRepo ==
    /\ dpc = "d357"
    /\ IF config.repo_id
       THEN /\ dpc' = "d368"
            /\ UNCHANGED out
       ELSE /\ dpc' = "exit"
            /\ out' = [out EXCEPT !.code = 0]
    /\ UNCHANGED <<model, idle, unload_timer, model_lock, status_lock, caption_status,
                   pc, exc, attempts, timers, handles, napped, trace, solo, since_gen,
                   entry, config, job, progress, emitted, mon, disk, last_gen>>

(* lines 368-378: the first record *)
JobInitProgress ==
    /\ dpc = "d368"
    /\ UpdateProgress(0, 100, <<"Starting download...">>, Zero, Zero)
    /\ dpc' = "d386"
    /\ UNCHANGED <<model, idle, unload_timer, model_lock, status_lock, caption_status,
                   pc, exc, attempts, timers, handles, napped, trace, solo, since_gen,
                   entry, config, job, out, mon, disk, last_gen>>

(* lines 382-391: os.makedirs(local_dir), outside the try block: its
   exception reaches line 503; then the choice between files and repository *)
JobMakeDirs ==
    /\ dpc = "d386"
    /\ \E ok \in BOOLEAN :
          dpc' = CASE ~ok -> "main503"
                   [] config.nfiles > 0 -> "d399"
                   [] OTHER -> "d463"
    /\ UNCHANGED <<model, idle, unload_timer, model_lock, status_lock, caption_status,
                   pc, exc, attempts, timers, handles, napped, trace, solo, since_gen,
                   entry, config, job, out, progress, emitted, mon, disk, last_gen>>

(* Mutant: a size query that fails ends the job *)
JobQuerySizeFatal ==
    /\ dpc = "d399"
    /\ \E size \in 0..MaxSize :
          /\ job' = [job EXCEPT !.file_sizes = Append(@, size),
                                !.total_download_size = @ + size]
          /\ dpc' = CASE size = 0 -> "d484"
                      [] Len(job.file_sizes) + 1 < config.nfiles -> "d399"
                      [] OTHER -> "d419"
    /\ UNCHANGED <<model, idle, unload_timer, model_lock, status_lock, caption_status,
                   pc, exc, attempts, timers, handles, napped, trace, solo, since_gen,
                   entry, config, out, progress, emitted, mon, disk, last_gen>>

(* lines 399-409: get_remote_file_size for the next file: the size the hub
   reports, 0 when the query raises *)
JobQuerySize ==
    /\ dpc = "d399"
    /\ \E size \in 0..MaxSize :
          job' = [job EXCEPT !.file_sizes = Append(@, size),
                             !.total_download_size = @ + size]
    /\ dpc' = IF Len(job.file_sizes) + 1 < config.nfiles THEN "d399" ELSE "d419"
    /\ UNCHANGED <<model, idle, unload_timer, model_lock, status_lock, caption_status,
                   pc, exc, attempts, timers, handles, napped, trace, solo, since_gen,
                   entry, config, out, progress, emitted, mon, disk, last_gen>>

(* lines 412-424: the record that opens file idx *)
JobStartFile ==
    /\ dpc = "d419"
    /\ UpdateProgress(job.cumulative_downloaded, job.total_download_size,
                      <<"Downloading", job.idx + 1>>, Zero, Zero)
    /\ dpc' = "d428"
    /\ UNCHANGED <<model, idle, unload_timer, model_lock, status_lock, caption_status,
                   pc, exc, attempts, timers, handles, napped, trace, solo, since_gen,
                   entry, config, job, out, mon, disk, last_gen>>

(* Mutant: the bytes of a downloaded file are not counted *)
JobTransferUncounted ==
    /\ dpc = "d428"
    /\ \E ok \in BOOLEAN : dpc' = IF ok THEN "d446" ELSE "d484"
    /\ UNCHANGED <<model, idle, unload_timer, model_lock, status_lock, caption_status,
                   pc, exc, attempts, timers, handles, napped, trace, solo, since_gen,
                   entry, config, job, out, progress, emitted, mon, disk, last_gen>>

(* Mutant: the path of a downloaded file is put in front of the list *)
JobTransferPrepend ==
    /\ dpc = "d428"
    /\ \E ok \in BOOLEAN :
          IF ok
          THEN /\ job' = [job EXCEPT !.cumulative_downloaded =
                                        @ + job.file_sizes[job.idx + 1],
                                     !.downloaded_files = <<job.idx + 1>> \o @]
               /\ dpc' = "d446"
          ELSE /\ dpc' = "d484"
               /\ UNCHANGED job
    /\ UNCHANGED <<model, idle, unload_timer, model_lock, status_lock, caption_status,
                   pc, exc, attempts, timers, handles, napped, trace, solo, since_gen,
                   entry, config, out, progress, emitted, mon, disk, last_gen>>

(* lines 426-443: hf_hub_download returns the path of file idx + 1, which
   is appended to downloaded_files, or raises *)
JobTransfer ==
    /\ dpc = "d428"
    /\ \E ok \in BOOLEAN :
          IF ok
          THEN /\ job' = [job EXCEPT !.cumulative_downloaded =
                                        @ + job.file_sizes[job.idx + 1],
                                     !.downloaded_files = Append(@, job.idx + 1)]
               /\ dpc' = "d446"
          ELSE /\ dpc' = "d484"
               /\ UNCHANGED job
    /\ UNCHANGED <<model, idle, unload_timer, model_lock, status_lock, caption_status,
                   pc, exc, attempts, timers, handles, napped, trace, solo, since_gen,
                   entry, config, out, progress, emitted, mon, disk, last_gen>>

(* lines 445-451: the record that closes file idx; the loop goes on *)
JobCompleteFile ==
    /\ dpc = "d446"
    /\ UpdateProgress(job.cumulative_downloaded, job.total_download_size,
                      <<"Completed", job.idx + 1>>, Zero, Zero)
    /\ job' = [job EXCEPT !.idx = @ + 1]
    /\ dpc' = IF job.idx + 1 < config.nfiles THEN "d419" ELSE "d453"
    /\ UNCHANGED <<model, idle, unload_timer, model_lock, status_lock, caption_status,
                   pc, exc, attempts, timers, handles, napped, trace, solo, since_gen,
                   entry, config, out, mon, disk, last_gen>>

(* line 463 *)
JobStartSnapshot ==
    /\ dpc = "d463"
    /\ UpdateProgress(0, 100, <<"Starting repository download...">>, Zero, Zero)
    /\ dpc' = "d465"
    /\ UNCHANGED <<model, idle, unload_timer, model_lock, status_lock, caption_status,
                   pc, exc, attempts, timers, handles, napped, trace, solo, since_gen,
                   entry, config, job, out, mon, disk, last_gen>>

(* lines 465-470: snapshot_download returns or raises *)
JobSnapshot ==
    /\ dpc = "d465"
    /\ \E ok \in BOOLEAN : dpc' = IF ok THEN "d472" ELSE "d484"
    /\ UNCHANGED <<model, idle, unload_timer, model_lock, status_lock, caption_status,
                   pc, exc, attempts, timers, handles, napped, trace, solo, since_gen,
                   entry, config, job, out, progress, emitted, mon, disk, last_gen>>

(* line 472 *)
JobCompleteSnapshot ==
    /\ dpc = "d472"
    /\ UpdateProgress(100, 100, <<"Complete">>, Zero, Zero)
    /\ dpc' = "d474"
    /\ UNCHANGED <<model, idle, unload_timer, model_lock, status_lock, caption_status,
                   pc, exc, attempts, timers, handles, napped, trace, solo, since_gen,
                   entry, config, job, out, mon, disk, last_gen>>

(* lines 453-458 and 474-482: print the success outcome, with files and
   count when the job named its files, and return *)
JobPrintSuccess ==
    /\ dpc \in {"d453", "d474"}
    /\ out' = [printed |-> Append(out.printed, "success"), code |-> 0,
               files |-> job.downloaded_files, count |-> Len(job.downloaded_files)]
    /\ dpc' = "exit"
    /\ UNCHANGED <<model, idle, unload_timer, model_lock, status_lock, caption_status,
                   pc, exc, attempts, timers, handles, napped, trace, solo, since_gen,
                   entry, config, job, progress, emitted, mon, disk, last_gen>>

(* Mutant: the failure of a file is printed and the loop goes on *)
JobFailThenNext ==
    /\ dpc = "d484"
    /\ out' = [out EXCEPT !.printed = Append(@, "failure")]
    /\ dpc' = IF config.nfiles > 0 THEN "d446" ELSE "d474"
    /\ UNCHANGED <<model, idle, unload_timer, model_lock, status_lock, caption_status,
                   pc, exc, attempts, timers, handles, napped, trace, solo, since_gen,
                   entry, config, job, progress, emitted, mon, disk, last_gen>>

(* lines 484-490: print the failure outcome, sys.exit(1) *)
JobFail ==
    /\ dpc = "d484"
    /\ PrintAndExit("failure", 1)
    /\ UNCHANGED <<model, idle, unload_timer, model_lock, status_lock, caption_status,
                   pc, exc, attempts, timers, handles, napped, trace, solo, since_gen,
                   entry, config, job, progress, emitted, mon, disk, last_gen>>

(* lines 503-508: an exception that left download_model *)
MainFail ==
    /\ dpc = "main503"
    /\ PrintAndExit("failure", 1)
    /\ UNCHANGED <<model, idle, unload_timer, model_lock, status_lock, caption_status,
                   pc, exc, attempts, timers, handles, napped, trace, solo, since_gen,
                   entry, config, job, progress, emitted, mon, disk, last_gen>>

(* ------------------ monitor_file_size(_cumulative) -------------------- *)
(* line 26: the stop flag; no line of the file assigns it again *)
STOP_MONITORING == FALSE

(* Largest size the file of expected size n can show: n, anything when
   the size is not known *)
FileMax(n) == IF n > 0 THEN n ELSE MaxObserved

(* What one poll can see: the size at the target path (-1: no such path),
   the size at the path found before (0: gone, or empty), the largest
   matching file of the cache, which holds the temporary files of every
   download, and the largest temporary file of the parent directory. The
   search stops at the first size above 0: a place it does not read is
   written 0 *)
Observations(n) ==
    {obs \in [target : -1..FileMax(n), found : 0..MaxObserved,
              cache : 0..MaxObserved, parent : 0..FileMax(n)] :
        /\ obs.found > 0 => (obs.target = -1 /\ mon.found_path \in {"cache", "parent"})
        /\ obs.cache > 0 => (obs.target <= 0 /\ obs.found = 0)
        /\ obs.parent > 0 => (obs.target <= 0 /\ obs.found = 0 /\ obs.cache = 0)}

(* lines 78-160 and 218-303: the search, in order: the target path, the
   path found before, the cache, the parent directory *)
Locate(obs) ==
    LET found1 == IF obs.target >= 0 THEN "target" ELSE mon.found_path
        size1 == IF obs.target >= 0 THEN obs.target ELSE 0
        size2 == CASE size1 > 0 -> size1
                   [] found1 = "target" -> size1
                   [] found1 = "none" -> 0
                   [] OTHER -> obs.found
        size3 == IF size2 = 0 THEN obs.cache ELSE size2
        found3 == IF size2 = 0 /\ obs.cache > 0 THEN "cache" ELSE found1
        size4 == IF size3 = 0 THEN obs.parent ELSE size3
        found4 == IF size3 = 0 /\ obs.parent > 0 THEN "parent" ELSE found3
    IN [size |-> size4, found_path |-> found4]

(* lines 169, 311: speed = growth / time since the last update, in bytes
   per tick; 0 when no time has passed *)
Speed(growth) ==
    IF mon.elapsed > 0 THEN Quotient(growth, mon.elapsed) ELSE Zero

(* lines 170, 312: eta = remaining / speed; 0 when speed is 0 *)
Eta(remaining, growth) ==
    IF mon.elapsed > 0 /\ growth > 0
    THEN Quotient(remaining * mon.elapsed, growth)
    ELSE Zero

(* Mutant: only the first heartbeat is emitted *)
HeartbeatDueOnce(size) ==
    size = 0 /\ mon.elapsed > HeartbeatTicks /\ emitted = NoRecord

(* lines 183-185, 325-327: nothing was found and the last update is more
   than two seconds old *)
HeartbeatDue(size) ==
    size = 0 /\ mon.elapsed > HeartbeatTicks

(* lines 77-198: one turn of the loop of monitor_file_size_cumulative, up
   to the sleep *)
MonitorCumulativePoll ==
    /\ entry = "monitor_file_size_cumulative" /\ dpc = "m77"
    /\ IF STOP_MONITORING
       THEN /\ dpc' = "exit"
            /\ UNCHANGED <<mon, progress, emitted>>
       ELSE /\ dpc' = "m199"
            /\ \E obs \in Observations(mon.file_size) :
                  LET loc == Locate(obs)
                      cumulative_bytes == mon.bytes_before + loc.size
                  IN CASE loc.size > mon.last_size ->
                            /\ UpdateProgress(cumulative_bytes, mon.total_size,
                                   <<"file", job.idx + 1, Len(job.file_sizes)>>,
                                   Speed(loc.size - mon.last_size),
                                   Eta(mon.total_size - cumulative_bytes,
                                       loc.size - mon.last_size))
                            /\ mon' = [mon EXCEPT !.found_path = loc.found_path,
                                                  !.current_size = loc.size,
                                                  !.last_size = loc.size,
                                                  !.elapsed = 0]
                       [] HeartbeatDue(loc.size) ->
                            /\ UpdateProgress(mon.bytes_before, mon.total_size,
                                   <<"Initializing">>, Zero, Zero)
                            /\ mon' = [mon EXCEPT !.found_path = loc.found_path,
                                                  !.current_size = loc.size,
                                                  !.elapsed = 0]
                       [] OTHER ->
                            /\ mon' = [mon EXCEPT !.found_path = loc.found_path,
                                                  !.current_size = loc.size]
                            /\ UNCHANGED <<progress, emitted>>
    /\ UNCHANGED <<model, idle, unload_timer, model_lock, status_lock, caption_status,
                   pc, exc, attempts, timers, handles, napped, trace, solo, since_gen,
                   entry, config, job, out, disk, last_gen>>

(* lines 217-335: one turn of the loop of monitor_file_size, up to the
   sleep *)
MonitorPoll ==
    /\ entry = "monitor_file_size" /\ dpc = "m217"
    /\ IF STOP_MONITORING
       THEN /\ dpc' = "exit"
            /\ UNCHANGED <<mon, progress, emitted>>
       ELSE /\ dpc' = "m336"
            /\ \E obs \in Observations(mon.total_size) :
                  LET loc == Locate(obs)
                  IN CASE loc.size > mon.last_size ->
                            /\ UpdateProgress(loc.size, mon.total_size, <<"file">>,
                                   Speed(loc.size - mon.last_size),
                                   Eta(mon.total_size - loc.size,
                                       loc.size - mon.last_size))
                            /\ mon' = [mon EXCEPT !.found_path = loc.found_path,
                                                  !.current_size = loc.size,
                                                  !.last_size = loc.size,
                                                  !.elapsed = 0]
                       [] HeartbeatDue(loc.size) ->
                            /\ UpdateProgress(0, mon.total_size, <<"Initializing">>,
                                              Zero, Zero)
                            /\ mon' = [mon EXCEPT !.found_path = loc.found_path,
                                                  !.current_size = loc.size,
                                                  !.elapsed = 0]
                       [] OTHER ->
                            /\ mon' = [mon EXCEPT !.found_path = loc.found_path,
                                                  !.current_size = loc.size]
                            /\ UNCHANGED <<progress, emitted>>
    /\ UNCHANGED <<model, idle, unload_timer, model_lock, status_lock, caption_status,
                   pc, exc, attempts, timers, handles, napped, trace, solo, since_gen,
                   entry, config, job, out, disk, last_gen>>

(* lines 199, 336: time.sleep(0.5); the turn of the loop takes the sleep
   and the time of the search; lines 78, 218: the next turn starts with
   current_size = 0 *)
MonitorSleep ==
    /\ dpc \in {"m199", "m336"}
    /\ \E ticks \in {PollTicks, PollTicks + 1} :
          mon' = [mon EXCEPT !.elapsed = Min(@ + ticks, ElapsedCap),
                            !.current_size = 0]
    /\ dpc' = IF dpc = "m199" THEN "m77" ELSE "m217"
    /\ UNCHANGED <<model, idle, unload_timer, model_lock, status_lock, caption_status,
                   pc, exc, attempts, timers, handles, napped, trace, solo, since_gen,
                   entry, config, job, out, progress, emitted, disk, last_gen>>

(* ------------- update_progress, statement by statement --------------- *)
(* The threads that call update_progress: download_model itself and a
   thread that runs a monitor function *)
Writers == {"main", "poll"}

(* Files that exist at one time: the progress file, the temporary file and
   a file each writer holds open *)
MaxInodes == Cardinality(Writers) + 2

(* json.dump of the record of writer w, n units long *)
RecordText(w, n) == [i \in 1..n |-> <<w, n>>]

(* The document parses as one complete record *)
WellFormed(text) ==
    /\ Len(text) > 0
    /\ \E w \in Writers : text = RecordText(w, Len(text))

NotRead == <<<<"not read", 0>>>>

Absent == <<<<"no file", 0>>>>

(* No progress file, no temporary file, nobody inside update_progress *)
DiskStart ==
    [tmp |-> 0, prog |-> 0, content |-> [i \in 1..MaxInodes |-> <<>>],
     upc |-> [w \in Writers |-> "idle"], fd |-> [w \in Writers |-> 0],
     len |-> [w \in Writers |-> 0], read |-> NotRead]

(* A file no path names and no writer holds open is gone *)
Collect(d) ==
    [d EXCEPT !.content = [i \in 1..MaxInodes |->
                              IF i = d.tmp \/ i = d.prog \/ \E w \in Writers : d.fd[w] = i
                              THEN d.content[i] ELSE <<>>]]

FreeInode ==
    CHOOSE i \in 1..MaxInodes :
        /\ i # disk.prog /\ \A w \in Writers : disk.fd[w] # i
        /\ \A j \in 1..(i - 1) : j = disk.prog \/ \E w \in Writers : disk.fd[w] = j

(* write() at offset 0 of a file that holds old: the bytes past the new
   text stay *)
Overwrite(old, text) ==
    IF Len(old) > Len(text)
    THEN text \o SubSeq(old, Len(text) + 1, Len(old))
    ELSE text

(* lines 33-46: the record is built, open(temp_file, 'w') creates the
   temporary file or truncates the one that is there *)
UpOpen(w) ==
    /\ entry = "update_progress" /\ disk.upc[w] = "idle"
    /\ \E n \in 1..MaxRecordLen :
          LET inode == IF disk.tmp = 0 THEN FreeInode ELSE disk.tmp
          IN disk' = [disk EXCEPT !.tmp = inode, !.content[inode] = <<>>,
                                  !.fd[w] = inode, !.len[w] = n, !.upc[w] = "u47"]
    /\ UNCHANGED <<model, idle, unload_timer, model_lock, status_lock, caption_status,
                   pc, exc, attempts, timers, handles, napped, trace, solo, since_gen,
                   entry, config, dpc, job, out, progress, emitted, mon, last_gen>>

(* line 47 and the end of the with block: json.dump fills the buffer of f,
   the close writes it at offset 0 of the file f has open *)
UpDump(w) ==
    /\ disk.upc[w] = "u47"
    /\ disk' = Collect([disk EXCEPT
                   !.content[disk.fd[w]] = Overwrite(@, RecordText(w, disk.len[w])),
                   !.fd[w] = 0, !.upc[w] = "u48"])
    /\ UNCHANGED <<model, idle, unload_timer, model_lock, status_lock, caption_status,
                   pc, exc, attempts, timers, handles, napped, trace, solo, since_gen,
                   entry, config, dpc, job, out, progress, emitted, mon, last_gen>>

(* line 48: os.replace(temp_file,
   progress_file); when the temporary file is gone it raises and lines
   57-59 log it *)
UpReplace(w) ==
    /\ disk.upc[w] = "u48"
    /\ disk' = Collect([disk EXCEPT
                   !.prog = IF disk.tmp # 0 THEN disk.tmp ELSE @,
                   !.tmp = 0, !.upc[w] = "idle"])
    /\ UNCHANGED <<model, idle, unload_timer, model_lock, status_lock, caption_status,
                   pc, exc, attempts, timers, handles, napped, trace, solo, since_gen,
                   entry, config, dpc, job, out, progress, emitted, mon, last_gen>>

(* Another process opens the progress file and reads it *)
ReadProgress ==
    /\ entry = "update_progress"
    /\ disk' = [disk EXCEPT !.read = IF disk.prog = 0 THEN Absent
                                      ELSE disk.content[disk.prog]]
    /\ UNCHANGED <<model, idle, unload_timer, model_lock, status_lock, caption_status,
                   pc, exc, attempts, timers, handles, napped, trace, solo, since_gen,
                   entry, config, dpc, job, out, progress, emitted, mon, last_gen>>

(* ------------------------- the specification -------------------------- *)
(* download_model.py is not running *)
DownloadAtRest ==
    /\ entry = "none"
    /\ config = [argv |-> "missing", repo_id |-> FALSE, nfiles |-> 0, progress_file |-> FALSE]
    /\ dpc = "off"
    /\ job = JobStart
    /\ out = NoOutput
    /\ progress = NoRecord
    /\ emitted = NoRecord
    /\ mon = MonitorAtRest
    /\ disk = DiskStart

(* caption_service.py after its module body has run *)
CaptionInit ==
    /\ model = NoModel
    /\ idle = 0
    /\ unload_timer = FALSE
    /\ model_lock = NoThread
    /\ status_lock = NoThread
    /\ caption_status = InitialStatus
    /\ pc = [t \in Threads |-> CASE t = Timer -> "off"
                                 [] t \in Readers -> "s363"
                                 [] OTHER -> "idle"]
    /\ exc = [r \in Requests |-> ""]
    /\ attempts = [r \in Requests |-> 0]
    /\ handles = 0
    /\ timers = 0
    /\ since_gen = IdleCap
    /\ napped = FALSE
    /\ trace = [r \in Requests |-> <<>>]
    /\ solo = [r \in Requests |-> FALSE]
    /\ last_gen = LeftLock("none", NoModel)

Init ==
    /\ CaptionInit
    /\ DownloadAtRest

Next ==
    \/ \E r \in Requests : BeginCaption(r)
    \/ \E r \in Requests : StatusLockAcquire(r)
    \/ \E r \in Requests : StatusWrite(r)
    \/ \E s \in Readers : StatusReadAcquire(s)
    \/ \E s \in Readers : StatusRead(s)
    \/ \E r \in Requests : CheckRequest(r)
    \/ \E r \in Requests : AcquireModelLock(r)
    \/ \E r \in Requests : EnsureEntry(r)
    \/ \E r \in Requests : CheckFiles(r)
    \/ \E r \in Requests : LoadPrimary(r)
    \/ \E r \in Requests : LoadFallback(r)
    \/ \E r \in Requests : CheckModel(r)
    \/ \E r \in Requests : EncodeImage(r)
    \/ \E r \in Requests : Inference(r)
    \/ \E r \in Requests : PostProcess(r)
    \/ \E r \in Requests : Unwind(r)
    \/ \E r \in Requests : Leave(r)
    \/ \E u \in Unloaders : BeginUnload(u)
    \/ \E u \in Unloaders : UnloadAcquire(u)
    \/ \E u \in Unloaders : UnloadBody(u)
    \/ \E u \in Unloaders : UnloadReturn(u)
    \/ TimerAcquire
    \/ TimerCheck
    \/ TimerFreed
    \/ Tick

Spec == Init /\ [][Next]_vars

(* The scheduler runs the reclamation thread and the clock advances *)
LiveSpec ==
    /\ Spec
    /\ WF_vars(Tick)
    /\ WF_vars(TimerAcquire)
    /\ WF_vars(TimerCheck)
    /\ WF_vars(TimerFreed)

(* A step of a request thread that waits for no lock: every call it makes
   returns or raises *)
RequestStep(r) ==
    \/ StatusWrite(r) \/ CheckRequest(r) \/ EnsureEntry(r) \/ CheckFiles(r)
    \/ LoadPrimary(r) \/ LoadFallback(r) \/ CheckModel(r) \/ EncodeImage(r)
    \/ Inference(r) \/ PostProcess(r) \/ Unwind(r) \/ Leave(r)

(* One run of download_model.py: the script on a command line, or one of
   its two monitor functions called for file k of a job whose sizes have
   been queried *)
Entries == {"job", "monitor_file_size", "monitor_file_size_cumulative"}

RECURSIVE SumSizes(_, _)
(* The sum of the first n sizes *)
SumSizes(sizes, n) == IF n = 0 THEN 0 ELSE SumSizes(sizes, n - 1) + sizes[n]

SizeLists(n) == [1..n -> 0..MaxSize]

MonitorCall(sizes, k) ==
    /\ config \in {c \in Configs : c.argv = "json" /\ c.repo_id /\ c.nfiles = Len(sizes)}
    /\ job = [file_sizes |-> sizes, idx |-> k - 1,
              cumulative_downloaded |-> SumSizes(sizes, k - 1),
              total_download_size |-> SumSizes(sizes, Len(sizes)),
              downloaded_files |-> [i \in 1..(k - 1) |-> i]]
    /\ mon = [file_size |-> sizes[k],
              bytes_before |-> SumSizes(sizes, k - 1),
              total_size |-> SumSizes(sizes, Len(sizes)),
              last_size |-> 0, current_size |-> 0, found_path |-> "none",
              elapsed |-> 0]

DownloadInit ==
    /\ CaptionInit
    /\ disk = DiskStart
    /\ entry \in Entries
    /\ out = NoOutput
    /\ progress = NoRecord
    /\ emitted = NoRecord
    /\ CASE entry = "job" ->
              /\ config \in Configs
              /\ dpc = "main493"
              /\ job = JobStart
              /\ mon = MonitorAtRest
         [] entry = "monitor_file_size" ->
              /\ dpc = "m217"
              /\ \E sizes \in SizeLists(1) : MonitorCall(sizes, 1)
         [] OTHER ->
              /\ dpc = "m77"
              /\ \E n \in 1..MaxFiles : \E sizes \in SizeLists(n) :
                    \E k \in 1..n : MonitorCall(sizes, k)

DownloadNext ==
    \/ MainParse
    \/ JobCheckRepo
    \/ JobInitProgress
    \/ JobMakeDirs
    \/ JobQuerySize
    \/ JobStartFile
    \/ JobTransfer
    \/ JobCompleteFile
    \/ JobStartSnapshot
    \/ JobSnapshot
    \/ JobCompleteSnapshot
    \/ JobPrintSuccess
    \/ JobFail
    \/ MainFail
    \/ MonitorCumulativePoll
    \/ MonitorPoll
    \/ MonitorSleep

DownloadSpec == DownloadInit /\ [][DownloadNext]_vars

(* update_progress called by the threads of one job, with a reader of the
   progress file *)
ProgressInit ==
    /\ CaptionInit
    /\ entry = "update_progress"
    /\ config = [argv |-> "json", repo_id |-> TRUE, nfiles |-> 1, progress_file |-> TRUE]
    /\ dpc = "off"
    /\ job = JobStart
    /\ out = NoOutput
    /\ progress = NoRecord
    /\ emitted = NoRecord
    /\ mon = MonitorAtRest
    /\ disk = DiskStart

ProgressNext ==
    \/ \E w \in Writers : UpOpen(w)
    \/ \E w \in Writers : UpDump(w)
    \/ \E w \in Writers : UpReplace(w)
    \/ ReadProgress

ProgressSpec == ProgressInit /\ [][ProgressNext]_vars

(* ============================== claims ================================ *)
(* The positions inside the with model_lock block of generate_caption_internal *)
CriticalSection ==
    {"g245", "g246", "e138", "e155", "e167", "g248", "g249", "g256", "g272", "g273",
     "g281", "g285", "raise"}

InCritical(r) == pc[r] \in CriticalSection

(* C1: under every interleaving of requests at most one request is inside
   the critical section of generate_caption_internal, and the request that
   is inside holds model_lock, from the acquisition through
   ensure_model_loaded and the inference call to the return or raise. *)
C1_MutualExclusion ==
    /\ Cardinality({r \in Requests : InCritical(r)}) <= 1
    /\ \A r \in Requests : InCritical(r) => model_lock = r

(* A request is inside the inference call while another waits for the lock *)
C1_Witness == \E r, q \in Requests : pc[r] = "g273" /\ pc[q] = "g244"

(* From the return of a successful ensure_model_loaded to the return or
   raise of the inference call *)
Generating(r) == pc[r] \in {"g248", "g256", "g272", "g273"}

(* C2: while a request is between a successful ensure_model_loaded and the
   end of its inference call, a handle is loaded and no step (of the
   reclamation loop, of a manual unload, of anything) changes it. *)
C2_NoUnloadDuringGeneration ==
    [][(\E r \in Requests : Generating(r)) => (model # NoModel /\ model' = model)]_vars

(* An inference call is running, the handle has been idle past the timeout,
   the reclamation loop is awake and a manual unload is waiting *)
C2_Witness ==
    /\ \E r \in Requests : pc[r] = "g273"
    /\ pc["u1"] = "u431"
    /\ pc[Timer] = "sleep" /\ napped /\ idle > UNLOAD_TIMEOUT

(* C3: a call of ensure_model_loaded that finds a handle loaded returns at
   once: no Llama(...) call, the same handle, and nothing but the activity
   timestamp (and the caller's position) changes. *)
C3_EnsureLoadedIdempotent ==
    [][\A r \in Requests :
          (pc[r] = "g246" /\ pc'[r] # "g246" /\ model # NoModel) =>
              /\ pc'[r] = "g248"
              /\ idle' = 0
              /\ \A t \in Threads \ {r} : pc'[t] = pc[t]
              /\ UNCHANGED <<model, handles, attempts, unload_timer, model_lock,
                             status_lock, caption_status, exc, napped>>]_vars

(* ensure_model_loaded has returned to a request that made no Llama(...)
   call, on a handle an earlier request loaded *)
C3_Witness ==
    \E r \in Requests : pc[r] = "g248" /\ attempts[r] = 0 /\ model # NoModel /\ idle > 0

(* No request and no manual unload is in progress *)
Quiet == \A t \in Requests \cup Unloaders : pc[t] = "idle"

(* C4: when a handle is loaded and from then on no captioning request and
   no unload occurs, the handle is eventually unloaded, at a time when more
   than UNLOAD_TIMEOUT has passed since the activity timestamp (fair
   scheduling of the reclamation loop and of the clock: LiveSpec). *)
C4_IdleReclaimed ==
    (model # NoModel /\ []Quiet) ~> (model = NoModel /\ idle > UNLOAD_TIMEOUT)

(* The loop has freed the handle while nothing else was running *)
C4_Witness == Quiet /\ pc[Timer] = "j116" /\ model = NoModel /\ handles > 0

(* C5: the reclamation loop frees the handle only when more than
   UNLOAD_TIMEOUT has passed since the activity timestamp: its freeing step
   is taken with idle > UNLOAD_TIMEOUT, and so is every state in which it
   has just freed the handle. *)
C5_NoEarlyReclaim ==
    /\ [](pc[Timer] = "j116" => (model = NoModel /\ idle > UNLOAD_TIMEOUT))
    /\ [][(model_lock = Timer /\ model # NoModel /\ model' = NoModel)
             => idle > UNLOAD_TIMEOUT]_vars

(* The loop has just freed a handle, and a request is waiting for the lock *)
C5_Witness == pc[Timer] = "j116" /\ \E r \in Requests : pc[r] = "g244"

(* C6: the manual unload reports success at both of its return sites; with
   a handle loaded it frees it, with none loaded it changes nothing but its
   own position; it always ends with no handle loaded. *)
C6_UnloadAlwaysSucceeds ==
    /\ [](\A u \in Unloaders :
             pc[u] \in UnloadReturnSites
                 => (UnloadResponse(pc[u]).success /\ model = NoModel))
    /\ [][\A u \in Unloaders :
             (pc[u] = "u432" /\ pc'[u] # "u432") =>
                 IF model # NoModel
                 THEN model' = NoModel /\ pc'[u] = "u437"
                 ELSE /\ pc'[u] = "u439"
                      /\ UNCHANGED <<model, idle, unload_timer, model_lock, status_lock,
                                     caption_status, exc, attempts, handles, napped>>]_vars

(* A manual unload answers after finding no handle, a handle having been
   loaded and freed before *)
C6_Witness == \E u \in Unloaders : pc[u] = "u439" /\ handles > 0

(* The exceptions of a failed load: a missing weight file, Llama(...) raising *)
LoadErrors == {"FileNotFoundError", "load"}

(* C7 as stated: when the load fails the error propagates to the request
   that triggered it, no handle is loaded, and that request has made no
   second attempt to load. *)
C7_Original ==
    \A r \in Requests :
        /\ exc[r] \in LoadErrors => pc[r] \in {"raise", "c421", "c422"}
        /\ (pc[r] = "raise" /\ exc[r] \in LoadErrors)
               => (model = NoModel /\ attempts[r] <= 1)

(* C7, amended: when the load fails the error propagates to the request
   that triggered it and no handle is loaded; a missing weight file raises
   before any load attempt, and a load that raises does so after exactly
   two attempts, the first one (lines 150-161) and the one fallback of lines
   162-174; there is never a third. *)
C7_Amended ==
    \A r \in Requests :
        /\ exc[r] \in LoadErrors => pc[r] \in {"raise", "c421", "c422"}
        /\ (pc[r] = "raise" /\ exc[r] = "FileNotFoundError")
               => (model = NoModel /\ attempts[r] = 0)
        /\ (pc[r] = "raise" /\ exc[r] = "load")
               => (model = NoModel /\ attempts[r] = 2)
        /\ attempts[r] <= 2

(* The error of a load whose two attempts both raised is propagating *)
C7_Witness == \E r \in Requests : pc[r] = "raise" /\ exc[r] = "load"

(* C8 as stated: a failed inference leaves the handle loaded, and the next
   request to enter ensure_model_loaded finds that same handle. *)
C8_Original ==
    \A r \in Requests :
        /\ (pc[r] = "raise" /\ exc[r] = "inference") => model # NoModel
        /\ (pc[r] = "g246" /\ last_gen.failed # NoModel) => model = last_gen.failed

(* C8, amended: the step in which the inference call raises leaves the
   handle as it is, so the handle is loaded while the error propagates and
   when the lock is released; the next request to enter
   ensure_model_loaded finds that same handle (and so generates without
   reloading) unless the reclamation loop or a manual unload has freed it
   in between. *)
C8_Amended ==
    /\ [](\A r \in Requests :
             /\ (pc[r] = "raise" /\ exc[r] = "inference") => model # NoModel
             /\ (pc[r] = "g246" /\ last_gen.failed # NoModel /\ ~last_gen.freed)
                    => model = last_gen.failed)
    /\ [][\A r \in Requests :
             (pc[r] = "g273" /\ pc'[r] = "raise") => model' = model]_vars

(* The next request enters ensure_model_loaded after a failed inference,
   no unload having happened in between *)
C8_Witness ==
    \E r \in Requests : pc[r] = "g246" /\ last_gen.failed # NoModel /\ ~last_gen.freed

(* C9: the status field is always one of idle, loading_model, generating,
   completed, error, and the record changes only in a step of a thread that
   holds status_lock. *)
C9_StatusDocumented ==
    /\ [](caption_status.status \in DocumentedStatuses)
    /\ [][caption_status' # caption_status => status_lock \in Requests]_vars

(* The statuses a request that returns a caption writes, in order *)
SuccessTrace == <<"starting", "loading_model", "generating", "generating", "completed">>

Range(s) == {s[i] : i \in DOMAIN s}

(* Every b of s comes after an a *)
Before(s, a, b) == \A j \in DOMAIN s : s[j] = b => \E i \in 1..(j - 1) : s[i] = a

(* C10: a request that runs with no other request in flight and returns a
   caption (200) has taken the status through loading_model, then
   generating, then completed, where it ends; one that fails (400 or 500)
   ends with the status at error, never wrote completed, and wrote
   generating only after loading_model; and no request that is propagating
   an exception ever reaches the write of completed. *)
C10_StatusPhases ==
    \A r \in Requests :
        /\ (solo[r] /\ pc[r] = "c414")
               => (trace[r] = SuccessTrace /\ caption_status.status = "completed")
        /\ (solo[r] /\ pc[r] \in {"c376", "c422"})
               => /\ trace[r] # <<>>
                  /\ trace[r][Len(trace[r])] = "error"
                  /\ caption_status.status = "error"
                  /\ "completed" \notin Range(trace[r])
                  /\ Before(trace[r], "loading_model", "generating")
        /\ exc[r] # "" => pc[r] \notin {"c410", "c414"}

(* A request that ran alone is about to return its caption *)
C10_Witness == \E r \in Requests : solo[r] /\ pc[r] = "c414"

(* C11: a read of the status record never waits for model_lock.  A
   GET /status that finds status_lock free takes it, whoever holds
   model_lock; and whoever holds status_lock is inside one record write or
   one record read, whose next step releases the lock and waits for
   nothing. *)
C11_StatusReadNeverBlocks ==
    /\ \A s \in Readers :
           (pc[s] = "s363" /\ status_lock = NoThread) => ENABLED StatusReadAcquire(s)
    /\ \A t \in Threads :
           status_lock = t =>
               /\ pc[t] \in UpdateStatusSites \cup {"s364"}
               /\ ENABLED (StatusWrite(t) \/ StatusRead(t))

(* The record is being read while a request holds model_lock inside its
   inference call *)
C11_Witness ==
    \E s \in Readers, r \in Requests :
        pc[s] = "s364" /\ status_lock = s /\ pc[r] = "g273" /\ model_lock = r

(* The positions inside the load of ensure_model_loaded *)
Loading(r) == pc[r] \in {"e138", "e155", "e167"}

(* C12: at most one handle exists.  The handle, when there is one, is the
   last one constructed; a load is entered, attempted and completed only
   by the holder of model_lock and only with no handle present, while every
   other request is outside the critical section; so of several requests
   arriving in state Unloaded one loads, and a request that comes out of
   ensure_model_loaded without having loaded finds the handle to reuse. *)
C12_SingleHandle ==
    /\ [](model \in {NoModel, handles})
    /\ [](\A r \in Requests :
             /\ Loading(r) =>
                    /\ model = NoModel /\ model_lock = r
                    /\ \A q \in Requests \ {r} : ~InCritical(q)
             /\ (pc[r] = "g248" /\ attempts[r] = 0) => model # NoModel)
    /\ [][/\ \A r \in Requests :
               attempts'[r] > attempts[r] => (model = NoModel /\ model_lock = r)
          /\ handles' # handles =>
               /\ model = NoModel
               /\ handles' = handles + 1
               /\ model' = handles']_vars

(* Two requests have arrived in state Unloaded: one is loading, the other
   is blocked on model_lock *)
C12_Witness ==
    \E r, q \in Requests :
        pc[r] = "e155" /\ pc[q] = "g244" /\ handles = 0 /\ model = NoModel

(* The reclamation thread has been started and is inside its while True *)
TimerRunning == pc[Timer] \in {"sleep", "j109", "j116"}

(* C13: no reclamation loop runs before the first successful load and
   exactly one runs from then on: the only step that starts a thread is the
   first successful load, unload_timer records it, the thread never leaves
   its loop, and no later load, failed load, unload or reload starts
   another. *)
C13_OneReclamationLoop ==
    /\ [](timers = IF handles = 0 THEN 0 ELSE 1)
    /\ [](unload_timer = (timers > 0))
    /\ [](TimerRunning <=> timers = 1)
    /\ [](pc[Timer] = "off" <=> timers = 0)
    /\ [][timers' # timers => (timers = 0 /\ handles = 0 /\ handles' = 1)]_vars

(* A second handle has been loaded, after an unload, and one loop runs *)
C13_Witness == handles = 2 /\ model = 2 /\ timers = 1 /\ TimerRunning

(* The reclamation loop frees the handle in this step *)
TimerFrees == model_lock = Timer /\ model # NoModel /\ model' = NoModel

(* C14: a successful generation refreshes the activity timestamp (line 285)
   after its inference call has returned and before it releases
   model_lock; so outside that window the timestamp is never older than the
   end of the last successful generation, and the reclamation loop frees
   the handle only when more than UNLOAD_TIMEOUT has passed since that end,
   however long the generation lasted. *)
C14_RefreshOnSuccess ==
    /\ [][\A r \in Requests :
             (pc[r] = "g285" /\ pc'[r] # "g285") => (model_lock = r /\ idle' = 0)]_vars
    /\ [](\A r \in Requests : pc[r] \in {"g281", "g285"} => model_lock = r)
    /\ []((\A r \in Requests : pc[r] \notin {"g281", "g285"}) => idle <= since_gen)
    /\ [][TimerFrees => since_gen > UNLOAD_TIMEOUT]_vars

(* The loop takes the lock right after a generation that lasted longer than
   UNLOAD_TIMEOUT has released it: the request has not been answered yet and
   the timestamp is fresh *)
C14_Witness ==
    /\ pc[Timer] = "j109" /\ model # NoModel
    /\ \E r \in Requests : pc[r] = "c410"
    /\ idle = 0 /\ since_gen = 0

(* C15: being Unloaded is not terminal.  A request whose
   ensure_model_loaded finds no handle, whatever unloaded it, enters the
   load; a load that succeeds installs a handle that never existed before;
   the generation of that request runs against it; and a load attempt can
   succeed whenever it is made (within MaxHandles loads). *)
C15_ReloadAfterUnload ==
    /\ [][\A r \in Requests :
             /\ (pc[r] = "g246" /\ pc'[r] # "g246" /\ model = NoModel) => pc'[r] = "e138"
             /\ (Loading(r) /\ pc'[r] = "g248") =>
                    (handles' = handles + 1 /\ model' = handles')]_vars
    /\ [](\A r \in Requests :
             /\ pc[r] \in {"g256", "g272", "g273"} =>
                    (model # NoModel /\ (attempts[r] > 0 => model = handles))
             /\ (pc[r] = "e155" /\ handles < MaxHandles) =>
                    ENABLED (LoadPrimary(r) /\ model' # NoModel)
             /\ (pc[r] = "e167" /\ handles < MaxHandles) =>
                    ENABLED (LoadFallback(r) /\ model' # NoModel))

(* A request is inside the inference call on the second handle, which it
   loaded itself after the first one was unloaded *)
C15_Witness ==
    \E r \in Requests : pc[r] = "g273" /\ attempts[r] > 0 /\ handles = 2 /\ model = 2

(* The status code C16 gives to the outcome of a request: 200 for a
   caption, 400 for a malformed request (no image, or a body that cannot be
   decoded), 503 when the model is unavailable, 500 for the other failures *)
ClaimedCode(r) ==
    CASE pc[r] = "c414" -> 200
      [] pc[r] = "c376" -> 400
      [] exc[r] = "decode" -> 400
      [] exc[r] \in LoadErrors -> 503
      [] OTHER -> 500

(* C16: every response of POST /caption carries the status code of its
   outcome: 200 when a caption is produced, 400 for a malformed request,
   500 when the inference call fails, 503 when the load fails or a weight
   file is missing. *)
C16_StatusCodes ==
    \A r \in Requests : pc[r] \in ReturnSites => ResponseCode(pc[r]) = ClaimedCode(r)

(* The job still has a file outstanding: download_model has not reached
   the print of its success outcome *)
Outstanding == entry = "job" /\ dpc \notin {"d453", "d474", "exit"}

(* C17: every progress record built or written has its percent in 0..99,
   whatever the downloaded and total bytes (downloaded >= total and
   total = 0 included); 100 is never written while a file of the job is
   outstanding. *)
C17_PercentBelow100 ==
    \A rec \in {emitted, progress} :
        rec # NoRecord =>
            /\ rec.progress \in 0..99
            /\ (rec.downloaded >= rec.total /\ rec.progress # 0) => rec.progress = 99

(* The first of two files is complete and was all of the job's bytes: the
   record written says 99 while the second file is outstanding *)
C17_Witness ==
    /\ Outstanding /\ dpc = "d419" /\ job.idx = 1 /\ config.nfiles = 2
    /\ progress = emitted /\ emitted.downloaded = emitted.total
    /\ emitted.total > 0 /\ emitted.progress = 99
(* download_model has printed its success outcome for a job that writes
   progress *)
JobSucceeded ==
    /\ entry = "job" /\ dpc = "exit" /\ config.progress_file
    /\ out.printed = <<"success">>

(* C18: when every file of a job has downloaded, the last record has
   downloaded = total = the sum of the files' sizes, and a completion write
   follows whose percent is 100: the last record built by a job that
   succeeded says 100. *)
C18_CompletionWrite ==
    JobSucceeded =>
        /\ emitted.downloaded = emitted.total
        /\ config.nfiles > 0 => emitted.total = SumSizes(job.file_sizes, config.nfiles)
        /\ emitted.progress = 100
(* A monitor function polls for the one file of a job, of known size *)
SingleFileSession ==
    /\ entry \in {"monitor_file_size", "monitor_file_size_cumulative"}
    /\ Len(job.file_sizes) = 1
    /\ mon.total_size > 0

(* C19: for a single file of known size S the downloaded bytes of the
   records a monitor emits over a polling session never decrease and never
   exceed S, whatever the polls see. *)
C19_Monotone ==
    [][(SingleFileSession /\ emitted' # emitted) =>
           /\ emitted'.downloaded >= emitted.downloaded
           /\ emitted'.downloaded <= mon.total_size]_vars
(* The sum of the sizes of all the files of the job *)
JobTotal == SumSizes(job.file_sizes, Len(job.file_sizes))

(* A record is emitted for file k = job.idx + 1 of a job of several files:
   by the job when the transfer of the file starts (line 419) and when it
   has returned (line 446), by the cumulative monitor while it polls *)
AccountingStep ==
    /\ Len(job.file_sizes) > 1
    /\ dpc \in {"d419", "d446", "m77"}
    /\ emitted' # emitted

(* The downloaded bytes the claim states for the record of this step: the
   sizes of the files before file k, plus the size observed when the record
   is one of growth, plus the size of file k when the file has completed *)
AccountedBytes ==
    CASE dpc = "d419" -> SumSizes(job.file_sizes, job.idx)
      [] dpc = "d446" -> SumSizes(job.file_sizes, job.idx + 1)
      [] OTHER -> SumSizes(job.file_sizes, job.idx)
                   + (IF mon'.last_size > mon.last_size THEN mon'.last_size ELSE 0)

(* C20 as stated: every record emitted while file k transfers has
   downloaded = sizes of files 1..k-1 + observed size of file k and total =
   the sum of the sizes of all files; after file k completes downloaded is
   the sum of the sizes of files 1..k. *)
C20_Original ==
    [][AccountingStep =>
           /\ emitted'.downloaded = AccountedBytes
           /\ emitted'.total = JobTotal]_vars

(* C20, amended: the same, except that total is the sum of the sizes of
   all files when that sum is above 0, and equals downloaded when the sum
   is 0 (no size of the job is known). *)
C20_Amended ==
    [][AccountingStep =>
           /\ emitted'.downloaded = AccountedBytes
           /\ emitted'.total = IF JobTotal > 0 THEN JobTotal ELSE emitted'.downloaded]_vars

(* The cumulative monitor has emitted, for the second file of a job, the
   bytes of the first file plus the bytes it observed *)
C20_Witness ==
    /\ entry = "monitor_file_size_cumulative" /\ job.idx = 1
    /\ mon.bytes_before > 0 /\ mon.last_size > 0
    /\ emitted.downloaded = mon.bytes_before + mon.last_size
    /\ emitted.total = JobTotal
    /\ emitted.current_file = <<"file", 2, 2>>
(* C21: whatever a reader of the progress file reads, at any moment between
   the steps of any number of update_progress calls of the job's thread and
   of a polling thread, is a complete well-formed record, never a partial
   or an empty one. *)
C21_ReaderSeesCompleteRecord ==
    disk.read \in {NotRead, Absent} \/ WellFormed(disk.read)
(* C22: a size query that fails (size 0) never aborts the job: the next
   query or the first download follows and nothing is printed; when the
   downloads start every file has had its query; the download of a file is
   attempted whatever its size; the success outcome is printed after all
   the files; the failure path of download_model is entered from a
   download call only. *)
C22_SizeQueryFailureNotFatal ==
    /\ [][dpc = "d399" =>
             /\ dpc' = IF Len(job.file_sizes) + 1 < config.nfiles THEN "d399" ELSE "d419"
             /\ Len(job'.file_sizes) = Len(job.file_sizes) + 1
             /\ out' = out]_vars
    /\ [](dpc \in {"d419", "d428", "d446"} =>
             /\ Len(job.file_sizes) = config.nfiles
             /\ job.idx < config.nfiles)
    /\ [](dpc = "d428" => ENABLED (JobTransfer /\ dpc' = "d446"))
    /\ [](dpc = "d453" => job.idx = config.nfiles)
    /\ [][dpc' = "d484" => dpc \in {"d428", "d465"}]_vars

(* A job of two files has printed its success outcome, the size query of
   its first file having failed and the one of its second file not *)
C22_Witness ==
    /\ entry = "job" /\ dpc = "exit" /\ out.printed = <<"success">> /\ out.code = 0
    /\ config.nfiles = 2 /\ job.idx = 2
    /\ job.file_sizes[1] = 0 /\ job.file_sizes[2] > 0
(* C23: when the download call raises for file k the job goes to its
   failure path with nothing printed before; from there the one step left
   prints the single failure outcome and exits with status 1, the job's
   counters as they were; nothing runs after the exit: no file after k is
   downloaded, file k is not retried, no success outcome is printed. *)
C23_AbortOnDownloadFailure ==
    /\ [][(dpc = "d428" /\ dpc' # "d446") => (dpc' = "d484" /\ job' = job)]_vars
    /\ [](dpc = "d484" => out = NoOutput)
    /\ [][dpc = "d484" =>
             /\ dpc' = "exit"
             /\ out' = [NoOutput EXCEPT !.printed = <<"failure">>, !.code = 1]
             /\ job' = job]_vars
    /\ [][dpc # "exit"]_vars

(* The download of the first of two files raised: the failure outcome is
   printed and the process has exited, the second file untouched *)
C23_Witness ==
    /\ entry = "job" /\ dpc = "exit" /\ out.printed = <<"failure">> /\ out.code = 1
    /\ config.nfiles = 2 /\ Len(job.file_sizes) = 2
    /\ job.idx = 0 /\ job.cumulative_downloaded = 0
(* C24: a run of the downloader that ends without the success outcome has
   printed one failure outcome and exits with a status other than 0. *)
C24_NoSilentFailure ==
    (entry = "job" /\ dpc = "exit" /\ out.printed # <<"success">>) =>
        /\ out.printed = <<"failure">>
        /\ out.code > 0
(* The positions of the loops of the two monitor functions *)
MonitorLoopSites == {"m77", "m199", "m217", "m336"}

(* A polling loop runs. download_model starts no thread and calls neither
   monitor function: a run of the job has the one position dpc, which is
   inside download_model or __main__ *)
PollingLoopRunning == dpc \in MonitorLoopSites

(* C25: while the external transfer of a file of the job is in flight a
   polling loop runs beside it. *)
C25_PollingDuringTransfer ==
    (entry = "job" /\ dpc = "d428") => PollingLoopRunning
(* C26: the stop flag gets set during the life of a job, so that no
   polling loop outlives the job: when the job has ended the flag is set. *)
C26_StopFlagSetByJob ==
    (entry = "job" /\ dpc = "exit") => STOP_MONITORING
(* A turn of a monitor loop, from its test to its sleep *)
PollStep ==
    /\ dpc \in {"m77", "m217"}
    /\ dpc' \in {"m199", "m336"}
    /\ config.progress_file

(* The heartbeat record of the claim: the bytes of the files before the one
   polled for, and the total of the job *)
HeartbeatOfJob ==
    ProgressData(SumSizes(job.file_sizes, job.idx), JobTotal, <<"Initializing">>,
                 Zero, Zero)

(* C27 as stated: while a polling loop runs and locates no growing file it
   keeps emitting heartbeats: a turn that finds no growth more than 2 s
   after the last record emits the heartbeat, so no turn ends with the last
   record older than 2 s; a heartbeat carries the bytes of the prior files
   and the total of the job. *)
C27_Original ==
    /\ [][(PollStep /\ mon'.current_size <= mon.last_size
                    /\ mon.elapsed > HeartbeatTicks) =>
              (emitted' = HeartbeatOfJob /\ mon'.elapsed = 0)]_vars
    /\ [](dpc \in {"m199", "m336"} => mon.elapsed <= HeartbeatTicks)
    /\ [](emitted.current_file = <<"Initializing">> => emitted = HeartbeatOfJob)

(* C27, amended: the same while the polling loop locates no file at all (no
   place of its search holds a byte): a turn that locates nothing more than
   2 s after the last record emits the heartbeat, so a turn that located
   nothing never ends with the last record older than 2 s, and the next
   heartbeat is due one polling period later at most; a heartbeat carries
   the bytes of the prior files and the total of the job. *)
C27_Amended ==
    /\ [][(PollStep /\ mon'.current_size = 0 /\ mon.elapsed > HeartbeatTicks) =>
              (emitted' = HeartbeatOfJob /\ mon'.elapsed = 0)]_vars
    /\ []((dpc \in {"m199", "m336"} /\ mon.current_size = 0) =>
              mon.elapsed <= HeartbeatTicks)
    /\ [](emitted.current_file = <<"Initializing">> => emitted = HeartbeatOfJob)

(* The cumulative monitor polls for the second file of a job: it emitted a
   record of growth, the file then went away, and the turn just ended has
   emitted the heartbeat with the bytes of the first file *)
C27_Witness ==
    /\ entry = "monitor_file_size_cumulative" /\ dpc = "m199" /\ job.idx = 1
    /\ mon.bytes_before > 0 /\ mon.last_size > 0 /\ mon.current_size = 0
    /\ mon.elapsed = 0
    /\ emitted = HeartbeatOfJob /\ progress = emitted
(* The files 1..n in the order of the job's list *)
InOrder(n) == [i \in 1..n |-> i]

(* C28: the files are transferred one at a time in the order of the list:
   when the transfer of file k+1 is about to start or in flight the
   downloads that have returned are those of files 1..k, in that order; a
   job that succeeded has printed the one success outcome, whose files are
   the paths of files 1..n in order and whose count is n. *)
C28_FilesInOrder ==
    /\ (dpc \in {"d419", "d428"} => job.downloaded_files = InOrder(job.idx))
    /\ (dpc = "d446" => job.downloaded_files = InOrder(job.idx + 1))
    /\ (entry = "job" /\ dpc = "exit" /\ out.code = 0 /\ config.nfiles > 0 /\ config.repo_id) =>
           /\ out.printed = <<"success">>
           /\ out.files = InOrder(config.nfiles)
           /\ out.count = config.nfiles

(* A job of two files has printed its success outcome *)
C28_Witness ==
    /\ entry = "job" /\ dpc = "exit" /\ out.printed = <<"success">>
    /\ config.nfiles = 2 /\ out.files = <<1, 2>> /\ out.count = 2
(* The positions at which a thread waits for model_lock *)
WaitsForModelLock(t) ==
    \/ t \in Requests /\ pc[t] = "g244"
    \/ t \in Unloaders /\ pc[t] = "u431"
    \/ t = Timer /\ pc[t] = "sleep" /\ napped

(* The positions inside a with model_lock block *)
InsideModelLock(t) ==
    \/ t \in Requests /\ InCritical(t)
    \/ t \in Unloaders /\ pc[t] \in {"u432"} \cup UnloadReturnSites
    \/ t = Timer /\ pc[t] \in {"j109", "j116"}

(* The positions of the with model_lock blocks, in the order of the code:
   no jump inside a block goes backwards *)
BlockOrder ==
    <<"g245", "g246", "e138", "e155", "e167", "g248", "g249", "g256", "g272", "g273",
      "g281", "g285", "raise", "u432", "u437", "u439", "j109", "j116">>

Rank(site) == CHOOSE i \in 1..Len(BlockOrder) : BlockOrder[i] = site

(* A step of the thread that holds model_lock *)
HolderStep(t) ==
    \/ t \in Requests /\ (RequestStep(t) \/ StatusLockAcquire(t))
    \/ t \in Unloaders /\ (UnloadBody(t) \/ UnloadReturn(t))
    \/ t = Timer /\ (TimerCheck \/ TimerFreed)

(* The holder of model_lock can take a step, or it waits for status_lock,
   whose holder can take the step that releases it *)
HolderCanStep(t) ==
    \/ ENABLED HolderStep(t)
    \/ /\ pc[t] \in UpdateStatusSites
       /\ \E h \in Threads \ {t} :
             status_lock = h /\ ENABLED (StatusWrite(h) \/ StatusRead(h))

(* The acquire of model_lock the thread waits in *)
WaitingAcquire(t) ==
    \/ t \in Requests /\ AcquireModelLock(t)
    \/ t \in Unloaders /\ UnloadAcquire(t)
    \/ t = Timer /\ TimerAcquire

(* C29: model_lock is held inside the with blocks only, so every way out of
   generate_caption_internal, of unload_model and of a reclamation pass
   releases it; no thread waits for model_lock while it holds status_lock;
   the holder of model_lock is never blocked for good (it can step, or the
   holder of status_lock can), its steps go forward through its block until
   the one that releases the lock, and a thread waiting for the lock can
   take it whenever it is free: no deadlock, no lock held for ever, and
   with calls that return and a fair lock every waiter acquires it. *)
C29_LockAlwaysReleased ==
    /\ [](\A t \in Threads : model_lock = t <=> InsideModelLock(t))
    /\ [](\A t \in Threads : WaitsForModelLock(t) => status_lock # t)
    /\ [](\A t \in Threads : model_lock = t => HolderCanStep(t))
    /\ [][\A t \in Threads :
             (model_lock = t /\ pc'[t] # pc[t]) =>
                 \/ model_lock' = NoThread
                 \/ model_lock' = t /\ Rank(pc'[t]) > Rank(pc[t])]_vars
    /\ [](\A t \in Threads :
             (WaitsForModelLock(t) /\ LockFree) => ENABLED WaitingAcquire(t))

(* A request, the manual unload and the reclamation pass wait for the lock
   that another request holds during its inference call *)
C29_Witness ==
    /\ \E r, q \in Requests : pc[r] = "g273" /\ model_lock = r /\ WaitsForModelLock(q)
    /\ \A u \in Unloaders : WaitsForModelLock(u)
    /\ WaitsForModelLock(Timer)
(* C30: whenever a request is executing the inference call the status
   record says generating, whatever the other requests do meanwhile. *)
C30_GeneratingWhileInference ==
    (\E r \in Requests : pc[r] = "g273") => caption_status.status = "generating"
(* The sign of a quotient kept as <<numerator, denominator>> *)
NonNegative(q) == (q[1] >= 0 /\ q[2] > 0) \/ (q[1] <= 0 /\ q[2] < 0)

(* C31: every record the cumulative monitor emits has speed >= 0 and
   eta >= 0, whatever the observed size and the sizes of the job's files
   (sizes of 0 from failed queries and observed sizes above the total
   included). *)
C31_SpeedEtaNonNegative ==
    (entry = "monitor_file_size_cumulative" /\ emitted # NoRecord) =>
        /\ NonNegative(emitted.speed)
        /\ NonNegative(emitted.eta)
====
